---- MODULE Spec2Model ----
(***************************************************************************)
(* HyperFTP (src/HyperFTP.py): the session and transfer engine of the      *)
(* Tk client.  One Tk main thread runs the handlers; connect_ftp,          *)
(* _upload_single_file and _download_single_file start worker threads that *)
(* use the shared self.ftp object and report back with root.after(0, ...). *)
(*                                                                         *)
(* The control connection of an ftplib.FTP object is a byte stream: every  *)
(* command line sent is handled by the server in the order received and    *)
(* its replies are appended to the stream (replyQ); a thread that reads a  *)
(* reply takes whatever reply is first in the stream.  ftplib's TYPE and   *)
(* PASV exchanges that precede STOR/RETR/MLSD/LIST are folded into the     *)
(* send of that verb.                                                      *)
(*                                                                         *)
(* Specifications: Spec (the session: connect, browse, disconnect, loss of *)
(* the connection), SpecTransfer (uploads and downloads on a connected     *)
(* session), SpecFolder (a folder upload after at most one file upload),   *)
(* SpecStor (uploads of one file of several sizes).                        *)
(***************************************************************************)
EXTENDS Integers, Sequences, FiniteSets, TLC

\* ---------------------------------------------------------------- bounds
MaxConnects == 2        \* connect requests made by the user
MaxTasks == 2           \* transfers the user dispatches one by one in a run
MaxBacklog == 1         \* unread replies above which the user starts no new remote operation
MaxEntries == 2         \* entries of a listing besides the regular ones

\* ------------------------------------------------------ program constants
ChunkSize == 8192       \* blocksize given to storbinary / retrbinary

\* ------------------------------------------------------------ vocabulary
None == 0               \* self.ftp = None
MainId == 0             \* the Tk main thread; task t is thread t, connect thread i is -i
TreeFiles == {"b"}      \* the files of the local folder tree d/{b, s/}
Tasks == 1 .. (MaxTasks + Cardinality(TreeFiles))
ConnIds == 1 .. MaxConnects

Root == <<>>            \* the path "/"
EmptyPath == <<"">>     \* the string '' (pwd() on a reply that is not a 257)
Parent(p) == IF p = Root THEN Root ELSE SubSeq(p, 1, Len(p) - 1)

\* the local files and folders the user can pick, with os.path.getsize
LocalFiles == {"a", "b"}
LocalFolders == {"d", "s"}
LocalChildren(d) == IF d = "d" THEN {"b", "s"} ELSE {}
\* the remote file offered for download in "/"
RemoteFile == "r"
RemoteSize == 10000     \* its size: one block and a part of one

Min(x, y) == IF x < y THEN x ELSE y

Perms(S) == {s \in [1 .. Cardinality(S) -> S] : \A i, j \in 1 .. Cardinality(S) : i # j => s[i] # s[j]}

VARIABLES
    ftp,                  \* self.ftp: None or the FTP object
    connected,            \* self.connected
    current_remote_path,  \* self.current_remote_path
    connect_btn,          \* connect button enabled
    disconnect_btn,       \* disconnect button enabled
    remote_tree,          \* names shown in the remote list
    sock,                 \* per FTP object: "new", "open", "closed", "broken"
    replyQ,               \* per FTP object: replies sent by the server and not yet read
    srvCwd,               \* per FTP object: the server's working directory of that session
    srvDirs,              \* directories that exist on the server
    srvCmds,              \* the optional commands the server implements
    srvEntries,           \* what the server lists in a directory besides its regular entries
    tls_var,              \* the "Use TLS" checkbox
    passive_var,          \* the "Passive Mode" checkbox
    conn,                 \* per FTP object: its class (FTP_TLS or FTP), prot_p done, passiveserver
    xfer,                 \* per task: the server's side of the data transfer
    nconn,                \* connect threads started
    cthread,              \* per connect thread: its position
    ntasks,               \* transfer threads started
    tasks,                \* per transfer thread: its locals and position
    afterQ,               \* callbacks scheduled with root.after(0, ...), in order
    mainOp,               \* the handler the main thread is running
    fstack,               \* the activation records of _upload_folder
    localSize,            \* os.path.getsize of the local files
    obs                   \* observations of the run: the callbacks Tk ran, the handlers that
                          \* logged, the connections whose I/O error a handler saw, the
                          \* transfers under way when the user disconnected, the folder upload

srvVars == <<replyQ, srvCwd, srvDirs, xfer>>
uiVars == <<connect_btn, disconnect_btn, remote_tree>>
sessVars == <<ftp, connected, current_remote_path>>
cfgVars == <<srvCmds, srvEntries, tls_var, passive_var, conn>>
vars == <<ftp, connected, current_remote_path, connect_btn, disconnect_btn, remote_tree,
          sock, replyQ, srvCwd, srvDirs, srvCmds, srvEntries, tls_var, passive_var, conn, xfer, nconn, cthread, ntasks, tasks,
          afterQ, mainOp, fstack, localSize, obs>>

FileSize(f) == localSize[f]

\* ------------------------------------------------------------ the server
\* commands a server may answer with 500: ftplib falls back from CDUP to CWD .., the
\* client from MLSD to LIST
OptionalCmds == {"MLSD", "CDUP"}

Reply(code, by, verb, path) == [code |-> code, by |-> by, verb |-> verb, path |-> path]
\* what a thread gets when the read raises instead (socket error, EOF, timeout)
Raised == Reply(0, MainId, "raise", Root)
Cls(r) == r.code \div 100

Push(c, rs) == replyQ' = [replyQ EXCEPT ![c] = @ \o rs]

\* CWD <path> / CWD <name> / CDUP, the target worked out by the server
SrvCwd(c, w, target) ==
    /\ IF target \in srvDirs
          THEN /\ srvCwd' = [srvCwd EXCEPT ![c] = target]
               /\ Push(c, <<Reply(250, w, "CWD", target)>>)
          ELSE /\ srvCwd' = srvCwd
               /\ Push(c, <<Reply(550, w, "CWD", target)>>)
    /\ UNCHANGED <<srvDirs, xfer>>

\* the argument of ftp.cwd as the server resolves it
AbsTarget(c, p) == IF p = EmptyPath THEN srvCwd[c] ELSE p
RelTarget(c, n) == Append(srvCwd[c], n)
UpTarget(c) == Parent(srvCwd[c])

\* CDUP on a server that implements it, 500 on one that does not
SrvCdup(c, w) ==
    IF "CDUP" \in srvCmds
       THEN SrvCwd(c, w, UpTarget(c))
       ELSE /\ Push(c, <<Reply(500, w, "CDUP", srvCwd[c])>>)
            /\ UNCHANGED <<srvCwd, srvDirs, xfer>>

SrvPwd(c, w) ==
    /\ Push(c, <<Reply(257, w, "PWD", srvCwd[c])>>)
    /\ UNCHANGED <<srvCwd, srvDirs, xfer>>

SrvMkd(c, w, n) ==
    LET target == RelTarget(c, n) IN
    /\ IF target \in srvDirs
          THEN /\ Push(c, <<Reply(550, w, "MKD", target)>>)
               /\ srvDirs' = srvDirs
          ELSE /\ Push(c, <<Reply(257, w, "MKD", target)>>)
               /\ srvDirs' = srvDirs \cup {target}
    /\ UNCHANGED <<srvCwd, xfer>>

\* MLSD or LIST: the listing goes out on the data connection, the preliminary and the
\* completion reply on the control connection
SrvList(c, w, verb) ==
    /\ IF verb = "MLSD" /\ verb \notin srvCmds
          THEN Push(c, <<Reply(500, w, verb, srvCwd[c])>>)
          ELSE Push(c, <<Reply(150, w, verb, srvCwd[c]), Reply(226, w, verb, srvCwd[c])>>)
    /\ UNCHANGED <<srvCwd, srvDirs, xfer>>

\* the names the server lists for directory p
Listing(p) == {n \in {"d", "s"} : Append(p, n) \in srvDirs} \cup (IF p = Root THEN {RemoteFile} ELSE {})

\* a size as the server writes it: a decimal number, or a token int() does not accept
\* (the "1," of a device file, an empty fact)
Tok(n) == [digits |-> TRUE, val |-> n]
BadTok == [digits |-> FALSE, val |-> 0]
\* a directory entry: its name, its MLSD type fact, its size in the MLSD facts (msize)
\* and in the fifth column of its LIST line (lsize)
Entry(name, type, msize, lsize) == [name |-> name, type |-> type, msize |-> msize, lsize |-> lsize]
RegularEntry(n) ==
    IF n = RemoteFile THEN Entry(n, "file", Tok(RemoteSize), Tok(RemoteSize))
                      ELSE Entry(n, "dir", Tok(0), Tok(4096))
\* the entries of directory p in the order the server writes them
Entries(p) ==
    LET ns == SelectSeq(<<"s", RemoteFile, "d">>, LAMBDA n : n \in Listing(p)) IN
    srvEntries \o [i \in 1 .. Len(ns) |-> RegularEntry(ns[i])]

\* a line of the data connection as the client reads it: the name, whether it says
\* directory, the size token, and the number of whitespace-separated tokens
Line(name, dir, size, ntok) == [name |-> name, dir |-> dir, size |-> size, ntok |-> ntok]
\* MLSD: "type=...;size=...; name"; facts.get('type') == 'dir'
MlsdLine(e) == Line(e.name, e.type = "dir", e.msize, 2)
\* LIST: "drwxr-xr-x 2 u g 4096 Jan 1 00:00 name"; line.startswith('d'); the directory
\* itself and its parent are listed as '.' and '..'
ListName(e) == IF e.type = "cdir" THEN "." ELSE IF e.type = "pdir" THEN ".." ELSE e.name
ListLine(e) == Line(ListName(e), e.type # "file", e.lsize, 9)
\* LIST output starts with "total <blocks>"
TotalLine == Line("", FALSE, BadTok, 2)
SrvListing(c, verb) ==
    LET es == Entries(srvCwd[c]) IN
    IF verb = "MLSD" THEN [i \in 1 .. Len(es) |-> MlsdLine(es[i])]
                     ELSE <<TotalLine>> \o [i \in 1 .. Len(es) |-> ListLine(es[i])]

\* STOR <name> of task t: accepted (150) in the working directory, or refused (550)
SrvStor(c, t, accept) ==
    /\ IF accept
          THEN /\ Push(c, <<Reply(150, t, "STOR", srvCwd[c])>>)
               /\ xfer' = [xfer EXCEPT ![t] = [st |-> "recv", dir |-> srvCwd[c], bytes |-> 0]]
          ELSE /\ Push(c, <<Reply(550, t, "STOR", srvCwd[c])>>)
               /\ xfer' = [xfer EXCEPT ![t] = [st |-> "refused", dir |-> srvCwd[c], bytes |-> 0]]
    /\ UNCHANGED <<srvCwd, srvDirs>>

\* RETR <name> of task t: the file is sent if it is in the working directory
SrvRetr(c, t, name) ==
    /\ IF name \in Listing(srvCwd[c]) /\ name = RemoteFile
          THEN /\ Push(c, <<Reply(150, t, "RETR", srvCwd[c])>>)
               /\ xfer' = [xfer EXCEPT ![t] = [st |-> "send", dir |-> srvCwd[c], bytes |-> 0]]
          ELSE /\ Push(c, <<Reply(550, t, "RETR", srvCwd[c])>>)
               /\ xfer' = [xfer EXCEPT ![t] = [st |-> "refused", dir |-> srvCwd[c], bytes |-> 0]]
    /\ UNCHANGED <<srvCwd, srvDirs>>

SrvSize(c, t, name) ==
    /\ IF name \in Listing(srvCwd[c]) /\ name = RemoteFile
          THEN Push(c, <<Reply(213, t, "SIZE", srvCwd[c])>>)
          ELSE Push(c, <<Reply(550, t, "SIZE", srvCwd[c])>>)
    /\ UNCHANGED <<srvCwd, srvDirs, xfer>>

\* the data connection of task t has ended: the server sends the completion reply on
\* the control connection, 226 or a negative one (disk full, transfer aborted)
FinalReplies(t, code) ==
    IF xfer[t].st \in {"recv", "send"} THEN <<Reply(code, t, "FINAL", xfer[t].dir)>> ELSE <<>>
XferEnded(t, code) ==
    IF xfer[t].st \in {"recv", "send"}
       THEN [xfer EXCEPT ![t].st = IF code = 226 THEN "complete" ELSE "failed"]
       ELSE xfer
\* the completion codes of a transfer that ran to its end
FinalCodes == {226, 451}
\* the data connection is closed by the client before the end: an upload ends there for
\* the server (226), a download is aborted (426)
AbortCode(t) == IF xfer[t].st = "recv" THEN 226 ELSE 426

\* ---------------------------------------------------- ftplib, client side
Usable(c) == c # None /\ sock[c] = "open"

\* getresp(): the first unread reply of the stream; a read on a dead socket raises, and
\* so does a read that finds nothing within the timeout
CanRecv(c) == sock[c] = "open" /\ replyQ[c] # <<>>
Recv(c) == IF CanRecv(c) THEN Head(replyQ[c]) ELSE Raised
Rest(c) == IF CanRecv(c) THEN Tail(replyQ[c]) ELSE replyQ[c]
Consume(c) == replyQ' = [replyQ EXCEPT ![c] = Rest(c)]
\* voidresp(): getresp() and the reply must be 2xx
VoidOk(r) == Cls(r) = 2

\* -------------------------------------------- refresh_remote_files, parsing
\* an item of the remote list: (is_dir, name, ...)
Item(is_dir, name) == [is_dir |-> is_dir, name |-> name]
Parsed(items, raised) == [items |-> items, raised |-> raised]
\* the loop over self.ftp.mlsd(): '.' and '..' are skipped, int() of a file's size fact
\* may raise ValueError, which leaves the items appended so far in `items`
RECURSIVE ParseMlsd(_, _)
ParseMlsd(lines, items) ==
    IF lines = <<>> THEN Parsed(items, FALSE)
    ELSE LET l == Head(lines) IN
         IF l.name \in {".", ".."} THEN ParseMlsd(Tail(lines), items)
         ELSE IF ~l.dir /\ ~l.size.digits THEN Parsed(items, TRUE)
         ELSE ParseMlsd(Tail(lines), Append(items, Item(l.dir, l.name)))
\* the loop over the lines of self.ftp.dir(): lines of fewer than 9 tokens are skipped,
\* int(parts[4]) of a file's line may raise ValueError
RECURSIVE ParseList(_, _)
ParseList(lines, items) ==
    IF lines = <<>> THEN Parsed(items, FALSE)
    ELSE LET l == Head(lines) IN
         IF l.ntok < 9 THEN ParseList(Tail(lines), items)
         ELSE IF ~l.dir /\ ~l.size.digits THEN Parsed(items, TRUE)
         ELSE ParseList(Tail(lines), Append(items, Item(l.dir, l.name)))

\* str.lower() on the names in use
Lower(n) == IF n = "B" THEN "b" ELSE IF n = "C" THEN "c" ELSE n
\* the order of Python's str comparison (code points) on those names
CodePoints == <<".", "..", "B", "C", "a", "b", "c", "d", "r", "s">>
Rank(n) == CHOOSE i \in DOMAIN CodePoints : CodePoints[i] = n
\* a comparison that keeps the case of the names: the fault C17_SortedListing detects
KeyLessCased(x, y) ==
    \/ x.is_dir /\ ~y.is_dir
    \/ x.is_dir = y.is_dir /\ Rank(x.name) < Rank(y.name)
\* key=lambda x: (not x[0], x[1].lower()): False sorts before True
KeyLess(x, y) ==
    \/ x.is_dir /\ ~y.is_dir
    \/ x.is_dir = y.is_dir /\ Rank(Lower(x.name)) < Rank(Lower(y.name))
\* items.sort(key=...): list.sort is stable, an item goes after those not greater
RECURSIVE Insert(_, _)
Insert(s, x) ==
    IF s = <<>> THEN <<x>>
    ELSE IF KeyLess(x, Head(s)) THEN <<x>> \o s
    ELSE <<Head(s)>> \o Insert(Tail(s), x)
RECURSIVE SortItems(_)
SortItems(items) ==
    IF items = <<>> THEN <<>>
    ELSE Insert(SortItems(SubSeq(items, 1, Len(items) - 1)), items[Len(items)])


\* ----------------------------------------------------------- initial state
Unset == 0 - 1          \* file_size not assigned yet
NoneSize == 0 - 2       \* file_size = None (size() on a reply that is not a 213)

Idle == [op |-> "idle", pc |-> "", c |-> None, reread |-> FALSE, data |-> <<>>, items |-> <<>>]
NoTask == [kind |-> "none", name |-> "", pc |-> "unused", c |-> None, file_size |-> Unset,
           cum |-> 0, hist |-> <<>>, reread |-> FALSE, dataOpen |-> FALSE, fileOpen |-> FALSE,
           moved |-> 0, folder |-> FALSE, target |-> Root, ioerr |-> FALSE, final |-> Raised]
NoXfer == [st |-> "none", dir |-> Root, bytes |-> 0]
NoFolderRun == [started |-> FALSE, returned |-> FALSE, pre |-> FALSE, listed |-> FALSE,
                alive |-> FALSE, before |-> Root, after |-> Root]

\* an FTP object: its class, whether prot_p() has secured its data connections,
\* ftplib's passiveserver attribute, which the class sets to True, and whether the
\* server has accepted a login on its connection
NewConn(tls) == [tls |-> tls, prot |-> FALSE, pasv |-> TRUE, login |-> FALSE]
NoConn == NewConn(FALSE)

\* the reply a pwd() call returned and the thread that made the call; at first
\* current_remote_path is the "/" of __init__
PathFrom(r, w) == [reply |-> r, reader |-> w]
NoPathFrom == PathFrom(Reply(0, MainId, "init", Root), MainId)

\* the local directory also holds an earlier copy of the remote file
LocalSizes == [f \in LocalFiles \cup {RemoteFile} |-> IF f = "a" THEN 20480 ELSE 100]
NoObs == [delivered |-> [t \in Tasks |-> <<>>],
          handled |-> [t \in Tasks |-> "none"],
          connHandled |-> [i \in ConnIds |-> "none"],
          rejected |-> {},
          marked |-> {},
          disconnected |-> FALSE,
          navFailed |-> FALSE,
          pathFrom |-> NoPathFrom,
          ioerr |-> {},
          interrupted |-> {},
          folderRun |-> NoFolderRun]

\* the state __init__ leaves
Init ==
    /\ ftp = None
    /\ connected = FALSE
    /\ current_remote_path = Root
    /\ connect_btn = TRUE
    /\ disconnect_btn = FALSE
    /\ remote_tree = <<>>
    /\ sock = [c \in ConnIds |-> "new"]
    /\ replyQ = [c \in ConnIds |-> <<>>]
    /\ srvCwd = [c \in ConnIds |-> Root]
    /\ srvDirs = {Root}
    /\ srvCmds \in SUBSET OptionalCmds
    /\ srvEntries = <<>>
    /\ tls_var = FALSE
    /\ passive_var = TRUE
    /\ conn = [c \in ConnIds |-> NoConn]
    /\ xfer = [t \in Tasks |-> NoXfer]
    /\ nconn = 0
    /\ cthread = [i \in ConnIds |-> [pc |-> "unused", c |-> None]]
    /\ ntasks = 0
    /\ tasks = [t \in Tasks |-> NoTask]
    /\ afterQ = <<>>
    /\ mainOp = Idle
    /\ fstack = <<>>
    /\ localSize = LocalSizes
    /\ obs = NoObs

Event(kind, id, value) == [kind |-> kind, id |-> id, value |-> value]
\* a queue that runs the newest callback first: the fault C4_OneTerminalEventLast detects
PostFirst(e) == afterQ' = <<e>> \o afterQ
\* root.after(0, ...): Tk runs the callbacks in the order they were scheduled
Post(e) == afterQ' = Append(afterQ, e)

\* the user starts a remote operation only while the main thread is idle and the
\* stream of unread replies is short
MainIdle == mainOp.op = "idle"
Quiet == IF ftp = None THEN TRUE ELSE Len(replyQ[ftp]) <= MaxBacklog

\* refresh_remote_files() is entered: the guard on self.connected and the clearing of
\* the remote list
EnterRefresh(isConnected) ==
    IF isConnected
       THEN /\ mainOp' = [Idle EXCEPT !.op = "refresh", !.pc = "cwd_send"]
            /\ remote_tree' = <<>>
       ELSE /\ mainOp' = Idle
            /\ remote_tree' = remote_tree

\* an I/O error of the control connection reached a handler of the main thread
NoteIoErr(c) == IF c # None /\ sock[c] = "broken" THEN obs.ioerr \cup {c} ELSE obs.ioerr

\* --------------------------------------------------------- connecting
connect_ftp ==
    /\ MainIdle /\ connect_btn
    /\ nconn < MaxConnects
    /\ nconn' = nconn + 1
    /\ cthread' = [cthread EXCEPT ![nconn + 1].pc = "create"]
    /\ obs' = [obs EXCEPT !.disconnected = FALSE]
    /\ UNCHANGED <<sessVars, uiVars, sock, srvVars, cfgVars, localSize, ntasks, tasks, afterQ, mainOp, fstack>>

\* the except clause of _connect_thread: the error callback is scheduled
ConnectRaise(i) ==
    /\ cthread' = [cthread EXCEPT ![i].pc = "handler"]
    /\ Post(Event("connect_err", i, 0))

\* if self.tls_var.get(): self.ftp = ftplib.FTP_TLS() else: self.ftp = ftplib.FTP()
connect_thread_create(i) ==
    /\ cthread[i].pc = "create"
    /\ ftp' = i
    /\ conn' = [conn EXCEPT ![i] = NewConn(tls_var)]
    /\ cthread' = [cthread EXCEPT ![i].pc = "connect"]
    /\ UNCHANGED <<connected, current_remote_path, uiVars, sock, srvVars, srvCmds, srvEntries, tls_var,
                   passive_var, localSize, nconn, ntasks, tasks, afterQ, mainOp, fstack, obs>>

\* self.ftp.connect(host, port, timeout=30): the object gets a new socket, the server a
\* new session; or the server refuses the connection
connect_thread_connect(i) ==
    /\ cthread[i].pc = "connect"
    /\ \/ /\ ftp # None
          /\ sock' = [sock EXCEPT ![ftp] = "open"]
          /\ replyQ' = [replyQ EXCEPT ![ftp] = <<>>]
          /\ srvCwd' = [srvCwd EXCEPT ![ftp] = Root]
          /\ conn' = [conn EXCEPT ![ftp].login = FALSE]
          /\ cthread' = [cthread EXCEPT ![i].pc = "login"]
          /\ UNCHANGED <<afterQ, obs>>
       \/ /\ ConnectRaise(i)
          /\ obs' = [obs EXCEPT !.rejected = @ \cup {i}]
          /\ UNCHANGED <<sock, replyQ, srvCwd, conn>>
    /\ UNCHANGED <<sessVars, uiVars, srvDirs, xfer, srvCmds, srvEntries, tls_var, passive_var, localSize, nconn,
                   ntasks, tasks, mainOp, fstack>>

\* a login step that marks the session connected whatever the server answered: the
\* fault C14_RejectedNeverConnected detects
LoginMarks(i, accepted) ==
    /\ connected' = TRUE
    /\ obs' = [obs EXCEPT !.marked = @ \cup {i},
                          !.rejected = IF accepted THEN @ ELSE @ \cup {i}]
\* self.connected = True is reached only if login() returned
Login(i, accepted) ==
    IF accepted
       THEN /\ connected' = TRUE
            /\ obs' = [obs EXCEPT !.marked = @ \cup {i}]
       ELSE /\ connected' = connected
            /\ obs' = [obs EXCEPT !.rejected = @ \cup {i}]

\* self.ftp.login(...); if self.tls_var.get(): self.ftp.prot_p();
\* if self.passive_var.get(): self.ftp.set_pasv(True); self.connected = True.
\* The server may reject the login; prot_p() does not exist on a plain FTP object
connect_thread_login(i) ==
    /\ cthread[i].pc = "login"
    /\ \/ /\ Usable(ftp)
          /\ IF tls_var /\ ~conn[ftp].tls
                THEN /\ ConnectRaise(i)
                     /\ conn' = [conn EXCEPT ![ftp].login = TRUE]
                     /\ UNCHANGED <<connected, obs>>
                ELSE /\ Login(i, TRUE)
                     /\ conn' = [conn EXCEPT ![ftp].login = TRUE,
                                             ![ftp].prot = IF tls_var THEN TRUE ELSE @,
                                             ![ftp].pasv = IF passive_var THEN TRUE ELSE @]
                     /\ cthread' = [cthread EXCEPT ![i].pc = "pwd_send"]
                     /\ UNCHANGED afterQ
       \/ /\ ConnectRaise(i)
          /\ Login(i, FALSE)
          /\ UNCHANGED conn
    /\ UNCHANGED <<ftp, current_remote_path, uiVars, sock, srvVars, srvCmds, srvEntries, tls_var, passive_var,
                   localSize, nconn, ntasks, tasks, mainOp, fstack>>

\* the user ticks or unticks "Use TLS" / "Passive Mode"
toggle_tls ==
    /\ MainIdle
    /\ tls_var' = ~tls_var
    /\ UNCHANGED <<sessVars, uiVars, sock, srvVars, srvCmds, srvEntries, passive_var, conn, localSize, nconn,
                   cthread, ntasks, tasks, afterQ, mainOp, fstack, obs>>
toggle_passive ==
    /\ MainIdle
    /\ passive_var' = ~passive_var
    /\ UNCHANGED <<sessVars, uiVars, sock, srvVars, srvCmds, srvEntries, tls_var, conn, localSize, nconn,
                   cthread, ntasks, tasks, afterQ, mainOp, fstack, obs>>

\* self.current_remote_path = self.ftp.pwd(): the command is sent
connect_thread_pwd_send(i) ==
    /\ cthread[i].pc = "pwd_send"
    /\ IF Usable(ftp)
          THEN /\ SrvPwd(ftp, 0 - i)
               /\ cthread' = [cthread EXCEPT ![i] = [pc |-> "pwd_read", c |-> ftp]]
               /\ UNCHANGED afterQ
          ELSE /\ ConnectRaise(i)
               /\ UNCHANGED srvVars
    /\ UNCHANGED <<sessVars, uiVars, sock, cfgVars, localSize, nconn, ntasks, tasks, mainOp, fstack, obs>>

\* pwd(): voidresp() must be 2xx; a 257 reply gives its path, any other 2xx gives ''
PwdValue(r) == IF r.code = 257 THEN r.path ELSE EmptyPath

\* ... the reply is read, the path stored and _on_connect_success scheduled
connect_thread_pwd_read(i) ==
    /\ cthread[i].pc = "pwd_read"
    /\ LET c == cthread[i].c
           r == Recv(c) IN
       /\ Consume(c)
       /\ IF VoidOk(r)
             THEN /\ current_remote_path' = PwdValue(r)
                  /\ cthread' = [cthread EXCEPT ![i].pc = "done"]
                  /\ Post(Event("connect_ok", i, 0))
                  /\ obs' = [obs EXCEPT !.pathFrom = PathFrom(r, 0 - i)]
             ELSE /\ ConnectRaise(i)
                  /\ UNCHANGED <<current_remote_path, obs>>
    /\ UNCHANGED <<ftp, connected, uiVars, sock, srvCwd, srvDirs, xfer, cfgVars, localSize, nconn, ntasks, tasks,
                   mainOp, fstack>>

\* the except clause ends: Python unbinds the name e the scheduled lambda refers to
connect_thread_exit(i) ==
    /\ cthread[i].pc = "handler"
    /\ cthread' = [cthread EXCEPT ![i].pc = "done"]
    /\ UNCHANGED <<sessVars, uiVars, sock, srvVars, cfgVars, localSize, nconn, ntasks, tasks, afterQ, mainOp,
                   fstack, obs>>

\* Tk runs the callback of _connect_thread's success
on_connect_success ==
    /\ MainIdle /\ afterQ # <<>> /\ Head(afterQ).kind = "connect_ok"
    /\ afterQ' = Tail(afterQ)
    /\ IF ftp = None
          THEN \* self.ftp.getwelcome() raises: the callback ends there
               /\ UNCHANGED <<uiVars, mainOp, obs>>
          ELSE /\ connect_btn' = FALSE
               /\ disconnect_btn' = TRUE
               /\ EnterRefresh(connected)
               /\ obs' = [obs EXCEPT !.connHandled[Head(afterQ).id] = "success"]
    /\ UNCHANGED <<sessVars, sock, srvVars, cfgVars, localSize, nconn, cthread, ntasks, tasks, fstack>>

\* Tk runs lambda: self._on_connect_error(str(e)); the lambda raises NameError when
\* the except clause that bound e has ended
on_connect_error ==
    /\ MainIdle /\ afterQ # <<>> /\ Head(afterQ).kind = "connect_err"
    /\ afterQ' = Tail(afterQ)
    /\ IF cthread[Head(afterQ).id].pc = "handler"
          THEN /\ ftp' = None
               /\ connected' = FALSE
               /\ obs' = [obs EXCEPT !.connHandled[Head(afterQ).id] = "error"]
          ELSE /\ UNCHANGED <<ftp, connected>>
               /\ obs' = [obs EXCEPT !.connHandled[Head(afterQ).id] = "raised"]
    /\ UNCHANGED <<current_remote_path, uiVars, sock, srvVars, cfgVars, localSize, nconn, cthread, ntasks, tasks,
                   mainOp, fstack>>

\* disconnect_ftp(): ftp.quit() is voidcmd('QUIT') then close(); any exception is ignored
disconnect_ftp ==
    /\ MainIdle /\ disconnect_btn
    /\ IF Usable(ftp)
          THEN /\ Push(ftp, <<Reply(221, MainId, "QUIT", Root)>>)
               /\ mainOp' = [Idle EXCEPT !.op = "disconnect", !.pc = "quit_read", !.c = ftp]
               /\ UNCHANGED <<sessVars, uiVars>>
          ELSE /\ ftp' = None
               /\ connected' = FALSE
               /\ connect_btn' = TRUE
               /\ disconnect_btn' = FALSE
               /\ remote_tree' = <<>>
               /\ UNCHANGED <<current_remote_path, replyQ, mainOp>>
    /\ obs' = [obs EXCEPT !.interrupted = @ \cup {t \in Tasks : tasks[t].dataOpen},
                          !.disconnected = ~Usable(ftp)]
    /\ UNCHANGED <<sock, srvCwd, srvDirs, xfer, cfgVars, localSize, nconn, cthread, ntasks, tasks, afterQ, fstack>>

disconnect_quit_read ==
    /\ mainOp.op = "disconnect" /\ mainOp.pc = "quit_read"
    /\ LET c == mainOp.c
           r == Recv(c) IN
       /\ Consume(c)
       \* close() runs only if voidcmd returned; the server has closed its end in any case
       /\ sock' = [sock EXCEPT ![c] = IF VoidOk(r) THEN "closed"
                                       ELSE IF @ = "open" THEN "broken" ELSE @]
    /\ ftp' = None
    /\ connected' = FALSE
    /\ connect_btn' = TRUE
    /\ disconnect_btn' = FALSE
    /\ remote_tree' = <<>>
    /\ mainOp' = Idle
    /\ obs' = [obs EXCEPT !.disconnected = TRUE]
    /\ UNCHANGED <<current_remote_path, srvCwd, srvDirs, xfer, cfgVars, localSize, nconn, cthread, ntasks, tasks,
                   afterQ, fstack>>

\* the control connection fails (peer reset, network loss)
BreakSocket(c) ==
    /\ sock[c] = "open"
    /\ sock' = [sock EXCEPT ![c] = "broken"]
    /\ UNCHANGED <<sessVars, uiVars, srvVars, cfgVars, localSize, nconn, cthread, ntasks, tasks, afterQ, mainOp,
                   fstack, obs>>


\* ------------------------------------------------------- remote listing
\* a handler of the main thread ends in its except clause, which logs the error
MainRaise(c) ==
    /\ mainOp' = Idle
    /\ obs' = [obs EXCEPT !.ioerr = NoteIoErr(c)]

\* the user presses F6 / Refresh
refresh_remote_files ==
    /\ MainIdle /\ Quiet
    /\ connected
    /\ EnterRefresh(connected)
    /\ UNCHANGED <<sessVars, connect_btn, disconnect_btn, sock, srvVars, cfgVars, localSize, nconn, cthread,
                   ntasks, tasks, afterQ, fstack, obs>>

\* self.ftp.cwd(self.current_remote_path): the command is sent
refresh_cwd_send ==
    /\ mainOp.op = "refresh" /\ mainOp.pc = "cwd_send"
    /\ IF Usable(ftp)
          THEN /\ SrvCwd(ftp, MainId, AbsTarget(ftp, current_remote_path))
               /\ mainOp' = [mainOp EXCEPT !.pc = "cwd_read", !.c = ftp]
               /\ UNCHANGED obs
          ELSE /\ MainRaise(ftp)
               /\ UNCHANGED srvVars
    /\ UNCHANGED <<sessVars, uiVars, sock, cfgVars, localSize, nconn, cthread, ntasks, tasks, afterQ, fstack>>

refresh_cwd_read ==
    /\ mainOp.op = "refresh" /\ mainOp.pc = "cwd_read"
    /\ LET r == Recv(mainOp.c) IN
       /\ Consume(mainOp.c)
       /\ IF VoidOk(r)
             THEN /\ mainOp' = [mainOp EXCEPT !.pc = "mlsd_send"]
                  /\ UNCHANGED obs
             ELSE MainRaise(mainOp.c)
    /\ UNCHANGED <<sessVars, uiVars, sock, srvCwd, srvDirs, xfer, cfgVars, localSize, nconn, cthread, ntasks, tasks,
                   afterQ, fstack>>

\* self.ftp.mlsd() (pc = "mlsd_send"), or self.ftp.dir(...) after the bare except
\* (pc = "list_send"): the command is sent and the server writes the listing
refresh_list_send ==
    /\ mainOp.op = "refresh" /\ mainOp.pc \in {"mlsd_send", "list_send"}
    /\ LET verb == IF mainOp.pc = "mlsd_send" THEN "MLSD" ELSE "LIST" IN
       IF Usable(ftp)
          THEN /\ SrvList(ftp, MainId, verb)
               /\ mainOp' = [mainOp EXCEPT !.pc = IF verb = "MLSD" THEN "mlsd_prelim" ELSE "list_prelim",
                                           !.c = ftp, !.reread = FALSE,
                                           !.data = IF verb = "MLSD" /\ verb \notin srvCmds THEN <<>>
                                                    ELSE SrvListing(ftp, verb)]
               /\ UNCHANGED obs
          ELSE /\ UNCHANGED srvVars
               /\ IF verb = "MLSD"
                     THEN mainOp' = [mainOp EXCEPT !.pc = "list_send"] /\ UNCHANGED obs
                     ELSE MainRaise(ftp)
    /\ UNCHANGED <<sessVars, uiVars, sock, cfgVars, localSize, nconn, cthread, ntasks, tasks, afterQ, fstack>>

\* transfercmd(): the reply to the verb; a 2xx reply is dropped once and the next one
\* read; anything but 1xx raises
PrelimAgain(r, reread) == Cls(r) = 2 /\ ~reread
PrelimOk(r) == Cls(r) = 1

refresh_list_prelim ==
    /\ mainOp.op = "refresh" /\ mainOp.pc \in {"mlsd_prelim", "list_prelim"}
    /\ LET r == Recv(mainOp.c)
           mlsd == mainOp.pc = "mlsd_prelim" IN
       /\ Consume(mainOp.c)
       /\ IF PrelimAgain(r, mainOp.reread)
             THEN mainOp' = [mainOp EXCEPT !.reread = TRUE] /\ UNCHANGED obs
             ELSE IF PrelimOk(r)
                     THEN mainOp' = [mainOp EXCEPT !.pc = IF mlsd THEN "mlsd_final" ELSE "list_final"]
                          /\ UNCHANGED obs
                     ELSE IF mlsd
                             THEN mainOp' = [mainOp EXCEPT !.pc = "list_send"] /\ UNCHANGED obs
                             ELSE MainRaise(mainOp.c)
    /\ UNCHANGED <<sessVars, uiVars, sock, srvCwd, srvDirs, xfer, cfgVars, localSize, nconn, cthread, ntasks, tasks,
                   afterQ, fstack>>

\* retrlines() ends with voidresp(); then the lines are parsed into items, the items
\* sorted and shown. An exception in the MLSD attempt (a reply that is not 2xx, a
\* ValueError in the loop) is caught by the bare except, which goes on with LIST and
\* the same `items`; an exception in the LIST attempt ends the handler in its log line
refresh_list_final ==
    /\ mainOp.op = "refresh" /\ mainOp.pc \in {"mlsd_final", "list_final"}
    /\ LET r == Recv(mainOp.c)
           mlsd == mainOp.pc = "mlsd_final"
           parsed == IF mlsd THEN ParseMlsd(mainOp.data, mainOp.items)
                             ELSE ParseList(mainOp.data, mainOp.items) IN
       /\ Consume(mainOp.c)
       /\ IF VoidOk(r) /\ ~parsed.raised
             THEN /\ remote_tree' = SortItems(parsed.items)
                  /\ mainOp' = Idle
                  /\ UNCHANGED obs
             ELSE /\ UNCHANGED remote_tree
                  /\ IF mlsd
                        THEN /\ mainOp' = [mainOp EXCEPT !.pc = "list_send",
                                                         !.items = IF VoidOk(r) THEN parsed.items ELSE @]
                             /\ UNCHANGED obs
                        ELSE MainRaise(mainOp.c)
    /\ UNCHANGED <<sessVars, connect_btn, disconnect_btn, sock, srvCwd, srvDirs, xfer, cfgVars, localSize, nconn,
                   cthread, ntasks, tasks, afterQ, fstack>>

\* ------------------------------------------------------------ navigation
\* the three handlers that change directory: go up, enter the selected folder, go to
\* the typed path; each is try: cwd; pwd; refresh / except: report
NavOps == {"goup", "enter", "nav"}
\* what the user may type into the remote path field: "/", "/d", and "/x", which the
\* server does not have
TypedPaths == {Root, <<"d">>, <<"x">>}

\* an except clause that refreshes the listing all the same: the fault
\* C28_FailedNavigationKeepsPath detects
NavRaiseRefresh(c) ==
    /\ mainOp' = [Idle EXCEPT !.op = "refresh", !.pc = "cwd_send"]
    /\ obs' = [obs EXCEPT !.ioerr = NoteIoErr(c), !.navFailed = TRUE]

\* cwd() or pwd() raised: the except clause of the handler reports the error, and the
\* statements after the call did not run; obs.navFailed says that the last navigation
\* the user asked for ended here
NavRaise(c) ==
    /\ mainOp' = Idle
    /\ obs' = [obs EXCEPT !.ioerr = NoteIoErr(c), !.navFailed = TRUE]

\* remote_double_click() on a folder item: cwd(current_remote_path.rstrip('/') + '/' + name)
remote_double_click ==
    /\ MainIdle /\ Quiet
    /\ connected
    /\ \E k \in DOMAIN remote_tree :
          /\ remote_tree[k].is_dir
          /\ LET base == IF current_remote_path = EmptyPath THEN Root ELSE current_remote_path
                 new_path == Append(base, remote_tree[k].name) IN
             IF Usable(ftp)
                THEN /\ SrvCwd(ftp, MainId, new_path)
                     /\ mainOp' = [Idle EXCEPT !.op = "enter", !.pc = "cwd_read", !.c = ftp]
                     /\ obs' = [obs EXCEPT !.navFailed = FALSE]
                ELSE /\ NavRaise(ftp)
                     /\ UNCHANGED srvVars
    /\ UNCHANGED <<sessVars, uiVars, sock, cfgVars, localSize, nconn, cthread, ntasks, tasks, afterQ, fstack>>

\* navigate_remote_path(): cwd(self.remote_path_var.get())
navigate_remote_path ==
    /\ MainIdle /\ Quiet
    /\ connected
    /\ \E path \in TypedPaths :
          IF Usable(ftp)
             THEN /\ SrvCwd(ftp, MainId, AbsTarget(ftp, path))
                  /\ mainOp' = [Idle EXCEPT !.op = "nav", !.pc = "cwd_read", !.c = ftp]
                  /\ obs' = [obs EXCEPT !.navFailed = FALSE]
             ELSE /\ NavRaise(ftp)
                  /\ UNCHANGED srvVars
    /\ UNCHANGED <<sessVars, uiVars, sock, cfgVars, localSize, nconn, cthread, ntasks, tasks, afterQ, fstack>>

\* remote_go_up(): self.ftp.cwd('..') sends CDUP
remote_go_up ==
    /\ MainIdle /\ Quiet
    /\ connected
    /\ IF Usable(ftp)
          THEN /\ SrvCdup(ftp, MainId)
               /\ mainOp' = [Idle EXCEPT !.op = "goup", !.pc = "cdup_read", !.c = ftp]
               /\ obs' = [obs EXCEPT !.navFailed = FALSE]
          ELSE /\ NavRaise(ftp)
               /\ UNCHANGED srvVars
    /\ UNCHANGED <<sessVars, uiVars, sock, cfgVars, localSize, nconn, cthread, ntasks, tasks, afterQ, fstack>>

\* the reply to CDUP; on a 500 reply cwd('..') goes on to send CWD ..
go_up_cdup_read ==
    /\ mainOp.op = "goup" /\ mainOp.pc = "cdup_read"
    /\ LET r == Recv(mainOp.c) IN
       /\ Consume(mainOp.c)
       /\ IF VoidOk(r)
             THEN mainOp' = [mainOp EXCEPT !.pc = "pwd_send"] /\ UNCHANGED obs
             ELSE IF r.code = 500
                     THEN mainOp' = [mainOp EXCEPT !.pc = "cwd_send"] /\ UNCHANGED obs
                     ELSE NavRaise(mainOp.c)
    /\ UNCHANGED <<sessVars, uiVars, sock, srvCwd, srvDirs, xfer, cfgVars, localSize, nconn, cthread, ntasks, tasks,
                   afterQ, fstack>>

\* voidcmd('CWD ..') on the same FTP object: the command is sent
go_up_cwd_send ==
    /\ mainOp.op = "goup" /\ mainOp.pc = "cwd_send"
    /\ IF Usable(mainOp.c)
          THEN /\ SrvCwd(mainOp.c, MainId, UpTarget(mainOp.c))
               /\ mainOp' = [mainOp EXCEPT !.pc = "cwd_read"]
               /\ UNCHANGED obs
          ELSE /\ NavRaise(mainOp.c)
               /\ UNCHANGED srvVars
    /\ UNCHANGED <<sessVars, uiVars, sock, cfgVars, localSize, nconn, cthread, ntasks, tasks, afterQ, fstack>>

go_up_cwd_read ==
    /\ mainOp.op \in NavOps /\ mainOp.pc = "cwd_read"
    /\ LET r == Recv(mainOp.c) IN
       /\ Consume(mainOp.c)
       /\ IF VoidOk(r)
             THEN mainOp' = [mainOp EXCEPT !.pc = "pwd_send"] /\ UNCHANGED obs
             ELSE NavRaise(mainOp.c)
    /\ UNCHANGED <<sessVars, uiVars, sock, srvCwd, srvDirs, xfer, cfgVars, localSize, nconn, cthread, ntasks, tasks,
                   afterQ, fstack>>

\* self.ftp.pwd(): the command is sent
go_up_pwd_send ==
    /\ mainOp.op \in NavOps /\ mainOp.pc = "pwd_send"
    /\ IF Usable(ftp)
          THEN /\ SrvPwd(ftp, MainId)
               /\ mainOp' = [mainOp EXCEPT !.pc = "pwd_read", !.c = ftp]
               /\ UNCHANGED obs
          ELSE /\ NavRaise(ftp)
               /\ UNCHANGED srvVars
    /\ UNCHANGED <<sessVars, uiVars, sock, cfgVars, localSize, nconn, cthread, ntasks, tasks, afterQ, fstack>>

\* self.current_remote_path = self.ftp.pwd(); self.refresh_remote_files()
go_up_pwd_read ==
    /\ mainOp.op \in NavOps /\ mainOp.pc = "pwd_read"
    /\ LET r == Recv(mainOp.c) IN
       /\ Consume(mainOp.c)
       /\ IF VoidOk(r)
             THEN /\ current_remote_path' = PwdValue(r)
                  /\ EnterRefresh(connected)
                  /\ obs' = [obs EXCEPT !.pathFrom = PathFrom(r, MainId)]
             ELSE /\ NavRaise(mainOp.c)
                  /\ UNCHANGED <<current_remote_path, remote_tree>>
    /\ UNCHANGED <<ftp, connected, connect_btn, disconnect_btn, sock, srvCwd, srvDirs, xfer, cfgVars, localSize,
                   nconn, cthread, ntasks, tasks, afterQ, fstack>>


\* ------------------------------------------------------------- transfers
NewTask(kind, name, size, folder, target) ==
    [NoTask EXCEPT !.kind = kind, !.name = name, !.pc = "start", !.file_size = size,
                   !.folder = folder, !.target = target]

\* the except clause of upload_thread / download_thread: the with blocks have closed
\* the data connection and the local file, and the error callback is scheduled
TaskRaise(t, tk, c) ==
    /\ tasks' = [tasks EXCEPT ![t] = [tk EXCEPT !.pc = "handler", !.dataOpen = FALSE, !.fileOpen = FALSE,
                                                !.c = c, !.ioerr = (c # None /\ sock[c] = "broken")]]
    /\ Post(Event("error", t, 0))

\* upload_file(): the selected local file goes to _upload_single_file, which takes the
\* size and starts upload_thread
upload_file ==
    /\ MainIdle /\ Quiet
    /\ connected
    /\ ntasks < MaxTasks
    /\ ntasks' = ntasks + 1
    /\ tasks' = [tasks EXCEPT ![ntasks + 1] = NewTask("up", "a", FileSize("a"), FALSE, Root)]
    /\ UNCHANGED <<sessVars, uiVars, sock, srvVars, cfgVars, localSize, nconn, cthread, afterQ, mainOp, fstack, obs>>

\* download_file(): the selected entry of the remote list that is no folder goes to
\* _download_single_file, which starts download_thread
download_file ==
    /\ MainIdle /\ Quiet
    /\ connected
    /\ \E k \in DOMAIN remote_tree : remote_tree[k] = Item(FALSE, RemoteFile)
    /\ ntasks < MaxTasks
    /\ ntasks' = ntasks + 1
    /\ tasks' = [tasks EXCEPT ![ntasks + 1] = NewTask("down", RemoteFile, Unset, FALSE, Root)]
    /\ UNCHANGED <<sessVars, uiVars, sock, srvVars, cfgVars, localSize, nconn, cthread, afterQ, mainOp, fstack, obs>>

\* with open(file_path, 'rb') as f: self.ftp.storbinary('STOR ' + filename, f, 8192, callback):
\* the data connection is opened and STOR sent
upload_thread_start(t) ==
    /\ tasks[t].kind = "up" /\ tasks[t].pc = "start"
    /\ IF Usable(ftp)
          THEN /\ \E accept \in BOOLEAN : SrvStor(ftp, t, accept)
               /\ tasks' = [tasks EXCEPT ![t].pc = "prelim", ![t].c = ftp, ![t].fileOpen = TRUE,
                                         ![t].dataOpen = TRUE]
               /\ UNCHANGED afterQ
          ELSE /\ TaskRaise(t, tasks[t], ftp)
               /\ UNCHANGED srvVars
    /\ UNCHANGED <<sessVars, uiVars, sock, cfgVars, localSize, nconn, cthread, ntasks, mainOp, fstack, obs>>

\* try: file_size = self.ftp.size(filename) except: file_size = 0 -- SIZE is sent
download_thread_start(t) ==
    /\ tasks[t].kind = "down" /\ tasks[t].pc = "start"
    /\ IF Usable(ftp)
          THEN /\ SrvSize(ftp, t, tasks[t].name)
               /\ tasks' = [tasks EXCEPT ![t].pc = "size_read", ![t].c = ftp]
          ELSE /\ tasks' = [tasks EXCEPT ![t].pc = "open", ![t].file_size = 0]
               /\ UNCHANGED srvVars
    /\ UNCHANGED <<sessVars, uiVars, sock, cfgVars, localSize, nconn, cthread, ntasks, afterQ, mainOp, fstack, obs>>

\* size(): getresp() raises on 4xx/5xx; a 213 reply gives the number, any other reply None
SizeValue(r) == IF Cls(r) \in {1, 2, 3} THEN (IF r.code = 213 THEN RemoteSize ELSE NoneSize) ELSE 0

download_thread_size_read(t) ==
    /\ tasks[t].kind = "down" /\ tasks[t].pc = "size_read"
    /\ LET r == Recv(tasks[t].c) IN
       /\ Consume(tasks[t].c)
       /\ tasks' = [tasks EXCEPT ![t].pc = "open", ![t].file_size = SizeValue(r)]
    /\ UNCHANGED <<sessVars, uiVars, sock, srvCwd, srvDirs, xfer, cfgVars, localSize, nconn, cthread, ntasks, afterQ,
                   mainOp, fstack, obs>>

\* with open(local_path, 'wb') as f: self.ftp.retrbinary('RETR ' + filename, write_callback, 8192):
\* the local file is created or truncated, then the data connection is opened and RETR sent
download_thread_open(t) ==
    /\ tasks[t].kind = "down" /\ tasks[t].pc = "open"
    /\ localSize' = [localSize EXCEPT ![tasks[t].name] = 0]
    /\ IF Usable(ftp)
          THEN /\ SrvRetr(ftp, t, tasks[t].name)
               /\ tasks' = [tasks EXCEPT ![t].pc = "prelim", ![t].c = ftp, ![t].fileOpen = TRUE,
                                         ![t].dataOpen = TRUE]
               /\ UNCHANGED afterQ
          ELSE /\ TaskRaise(t, tasks[t], ftp)
               /\ UNCHANGED srvVars
    /\ UNCHANGED <<sessVars, uiVars, sock, cfgVars, nconn, cthread, ntasks, mainOp, fstack, obs>>

\* transfercmd() of either direction reads the reply to STOR / RETR
transfer_thread_prelim(t) ==
    /\ tasks[t].pc = "prelim"
    /\ LET c == tasks[t].c
           r == Recv(c) IN
       IF PrelimAgain(r, tasks[t].reread)
          THEN /\ Consume(c)
               /\ tasks' = [tasks EXCEPT ![t].reread = TRUE]
               /\ UNCHANGED <<xfer, afterQ>>
          ELSE IF PrelimOk(r)
                  THEN /\ Consume(c)
                       /\ tasks' = [tasks EXCEPT ![t].pc = "stream"]
                       /\ UNCHANGED <<xfer, afterQ>>
                  ELSE \* conn.close(); raise
                       /\ replyQ' = [replyQ EXCEPT ![c] = Rest(c) \o FinalReplies(t, AbortCode(t))]
                       /\ xfer' = XferEnded(t, AbortCode(t))
                       /\ TaskRaise(t, tasks[t], c)
    /\ UNCHANGED <<sessVars, uiVars, sock, srvCwd, srvDirs, cfgVars, localSize, nconn, cthread, ntasks, mainOp,
                   fstack, obs>>

\* a callback that counts a whole block for every call: the fault C7_UploadProgress detects
UploadCallbackBlock(tk, n) == [tk EXCEPT !.cum = @ + ChunkSize, !.hist = Append(@, tk.cum + ChunkSize)]
\* the callback given to storbinary: uploaded[0] += len(data), the progress is scheduled
UploadCallback(tk, n) == [tk EXCEPT !.cum = @ + n, !.hist = Append(@, tk.cum + n)]

\* one round of storbinary's loop: buf = fp.read(blocksize); if not buf: break;
\* conn.sendall(buf); callback(buf) -- and the close of the data connection after it
upload_thread_stream(t) ==
    /\ tasks[t].kind = "up" /\ tasks[t].pc = "stream"
    /\ LET tk == tasks[t]
           c == tk.c
           n == Min(ChunkSize, tk.file_size - tk.moved) IN
       IF n = 0
          THEN /\ \E code \in FinalCodes :
                     /\ replyQ' = [replyQ EXCEPT ![c] = @ \o FinalReplies(t, code)]
                     /\ xfer' = XferEnded(t, code)
               /\ tasks' = [tasks EXCEPT ![t].pc = "final", ![t].dataOpen = FALSE]
               /\ UNCHANGED afterQ
          ELSE \/ /\ xfer' = [xfer EXCEPT ![t].bytes = IF xfer[t].st = "recv" THEN @ + n ELSE @]
                  /\ tasks' = [tasks EXCEPT ![t] = UploadCallback([tk EXCEPT !.moved = @ + n], n)]
                  /\ Post(Event("progress", t, tk.cum + n))
                  /\ UNCHANGED replyQ
               \/ \* the server does not read the data connection: sendall may raise
                  /\ xfer[t].st # "recv"
                  /\ TaskRaise(t, tk, c)
                  /\ UNCHANGED <<replyQ, xfer>>
    /\ UNCHANGED <<sessVars, uiVars, sock, srvCwd, srvDirs, cfgVars, localSize, nconn, cthread, ntasks, mainOp,
                   fstack, obs>>

\* a callback that keeps the last block's length instead of the sum: the fault
\* C6_TotalFixedBeforeTransfer detects
DownloadCallbackLast(tk, n) == [tk EXCEPT !.cum = n, !.hist = Append(@, n)]
\* the callback of download_thread: downloaded[0] += len(data), then the comparison
\* file_size > 0, which raises TypeError on None
DownloadCallback(tk, n) == [tk EXCEPT !.cum = @ + n, !.hist = Append(@, tk.cum + n)]

\* one round of retrbinary's loop: data = conn.recv(blocksize); if not data: break;
\* write_callback(data): callback(data), then f.write(data) at this handle's offset --
\* and the close of the data connection after the loop
download_thread_stream(t) ==
    /\ tasks[t].kind = "down" /\ tasks[t].pc = "stream"
    /\ LET tk == tasks[t]
           c == tk.c
           n == IF xfer[t].st = "send" THEN Min(ChunkSize, RemoteSize - xfer[t].bytes) ELSE 0 IN
       IF n = 0
          THEN /\ \E code \in FinalCodes :
                     /\ replyQ' = [replyQ EXCEPT ![c] = @ \o FinalReplies(t, code)]
                     /\ xfer' = XferEnded(t, code)
               /\ tasks' = [tasks EXCEPT ![t].pc = "final", ![t].dataOpen = FALSE]
               /\ UNCHANGED <<afterQ, localSize>>
          ELSE IF tk.file_size = NoneSize
                  THEN /\ replyQ' = [replyQ EXCEPT ![c] = @ \o FinalReplies(t, AbortCode(t))]
                       /\ xfer' = XferEnded(t, AbortCode(t))
                       /\ TaskRaise(t, DownloadCallback(tk, n), c)
                       /\ UNCHANGED localSize
                  ELSE /\ xfer' = [xfer EXCEPT ![t].bytes = @ + n]
                       /\ tasks' = [tasks EXCEPT ![t] = [DownloadCallback(tk, n) EXCEPT !.moved = @ + n]]
                       /\ IF tk.file_size > 0
                             THEN Post(Event("progress", t, tk.cum + n))
                             ELSE UNCHANGED afterQ
                       /\ localSize' = [localSize EXCEPT ![tk.name] = IF @ < tk.moved + n THEN tk.moved + n ELSE @]
                       /\ UNCHANGED replyQ
    /\ UNCHANGED <<sessVars, uiVars, sock, srvCwd, srvDirs, cfgVars, nconn, cthread, ntasks, mainOp,
                   fstack, obs>>

\* storbinary / retrbinary end with voidresp(); then the complete callback is scheduled
transfer_thread_final(t) ==
    /\ tasks[t].pc = "final"
    /\ LET c == tasks[t].c
           r == Recv(c)
           tk == [tasks[t] EXCEPT !.final = r] IN
       /\ Consume(c)
       /\ IF VoidOk(r)
             THEN /\ tasks' = [tasks EXCEPT ![t] = [tk EXCEPT !.pc = "done", !.fileOpen = FALSE]]
                  /\ Post(Event("complete", t, 0))
             ELSE TaskRaise(t, tk, c)
    /\ UNCHANGED <<sessVars, uiVars, sock, srvCwd, srvDirs, xfer, cfgVars, localSize, nconn, cthread, ntasks, mainOp,
                   fstack, obs>>

\* the except clause ends: Python unbinds the name e the scheduled lambda refers to
transfer_thread_exit(t) ==
    /\ tasks[t].pc = "handler"
    /\ tasks' = [tasks EXCEPT ![t].pc = "done"]
    /\ UNCHANGED <<sessVars, uiVars, sock, srvVars, cfgVars, localSize, nconn, cthread, ntasks, afterQ, mainOp,
                   fstack, obs>>

\* ------------------------------------------- callbacks run by the Tk loop
Delivered(t, kind) == [obs EXCEPT !.delivered[t] = Append(@, kind)]

\* lambda: self.progress_var.set(progress)
progress_callback ==
    /\ MainIdle /\ afterQ # <<>> /\ Head(afterQ).kind = "progress"
    /\ afterQ' = Tail(afterQ)
    /\ obs' = Delivered(Head(afterQ).id, "progress")
    /\ UNCHANGED <<sessVars, uiVars, sock, srvVars, cfgVars, localSize, nconn, cthread, ntasks, tasks, mainOp, fstack>>

\* _upload_complete(filename): log, then refresh_remote_files()
upload_complete ==
    /\ MainIdle /\ afterQ # <<>> /\ Head(afterQ).kind = "complete"
    /\ tasks[Head(afterQ).id].kind = "up"
    /\ afterQ' = Tail(afterQ)
    /\ obs' = [Delivered(Head(afterQ).id, "complete") EXCEPT !.handled[Head(afterQ).id] = "complete"]
    /\ EnterRefresh(connected)
    /\ UNCHANGED <<sessVars, connect_btn, disconnect_btn, sock, srvVars, cfgVars, localSize, nconn, cthread, ntasks,
                   tasks, fstack>>

\* _download_complete(filename): log, then refresh_local_files()
download_complete ==
    /\ MainIdle /\ afterQ # <<>> /\ Head(afterQ).kind = "complete"
    /\ tasks[Head(afterQ).id].kind = "down"
    /\ afterQ' = Tail(afterQ)
    /\ obs' = [Delivered(Head(afterQ).id, "complete") EXCEPT !.handled[Head(afterQ).id] = "complete"]
    /\ UNCHANGED <<sessVars, uiVars, sock, srvVars, cfgVars, localSize, nconn, cthread, ntasks, tasks, mainOp, fstack>>

\* lambda: self._upload_error(filename, str(e)) / self._download_error(filename, str(e)):
\* the handler logs the failure; the lambda raises NameError instead when the except
\* clause that bound e has ended
transfer_error ==
    /\ MainIdle /\ afterQ # <<>> /\ Head(afterQ).kind = "error"
    /\ afterQ' = Tail(afterQ)
    /\ LET t == Head(afterQ).id IN
       obs' = IF tasks[t].pc = "handler"
                 THEN [Delivered(t, "error") EXCEPT !.handled[t] = "error",
                                                    !.ioerr = IF tasks[t].ioerr THEN @ \cup {tasks[t].c} ELSE @]
                 ELSE Delivered(t, "error")
    /\ UNCHANGED <<sessVars, uiVars, sock, srvVars, cfgVars, localSize, nconn, cthread, ntasks, tasks, mainOp, fstack>>


\* --------------------------------------------------------- folder upload
Frame(pc, local, remote, original) ==
    [pc |-> pc, local |-> local, remote |-> remote, original |-> original, items |-> <<>>,
     \* the server's working directory when the call began
     entry |-> IF ftp = None THEN Root ELSE srvCwd[ftp]]
Top == fstack[Len(fstack)]
SetTop(fr) == [fstack EXCEPT ![Len(fstack)] = fr]
InFolder(pc) == mainOp.op = "folder" /\ Top.pc = pc

\* _upload_folder(local, remote_name) is entered with the frames below it in `stack`:
\* the guard on self.connected, then self.ftp.mkd(remote_name) inside try/except: pass
\* (the command is sent); `remote` is the remote folder that corresponds to `local`
EnterFolder(stack, local, remote) ==
    IF ~connected
       THEN /\ fstack' = stack
            /\ UNCHANGED <<srvVars, mainOp>>
       ELSE IF Usable(ftp)
               THEN /\ SrvMkd(ftp, MainId, local)
                    /\ fstack' = Append(stack, Frame("mkd_read", local, remote, Root))
                    /\ mainOp' = [Idle EXCEPT !.op = "folder", !.c = ftp]
               ELSE /\ fstack' = Append(stack, Frame("cwd_send", local, remote, current_remote_path))
                    /\ mainOp' = [Idle EXCEPT !.op = "folder", !.c = ftp]
                    /\ UNCHANGED srvVars

\* upload_folder(): the user picks the folder "d"
upload_folder ==
    /\ MainIdle /\ Quiet
    /\ connected
    /\ ~obs.folderRun.started
        /\ EnterFolder(<<>>, "d", IF ftp = None THEN <<"d">> ELSE Append(srvCwd[ftp], "d"))
    /\ obs' = [obs EXCEPT !.folderRun = [NoFolderRun EXCEPT
                              !.started = TRUE,
                              !.pre = Usable(ftp) /\ srvCwd[ftp] = current_remote_path,
                              !.before = IF ftp = None THEN Root ELSE srvCwd[ftp]]]
    /\ UNCHANGED <<sessVars, uiVars, sock, cfgVars, localSize, nconn, cthread, ntasks, tasks, afterQ>>

\* _upload_folder returns: the frame is dropped and the caller's loop goes on
FolderReturn(c) ==
    /\ fstack' = SubSeq(fstack, 1, Len(fstack) - 1)
    /\ IF Len(fstack) = 1
          THEN /\ mainOp' = Idle
               /\ obs' = [obs EXCEPT !.folderRun.returned = TRUE,
                                     !.folderRun.after = IF ftp = None THEN Root ELSE srvCwd[ftp],
                                     !.folderRun.alive = Usable(ftp),
                                     !.ioerr = NoteIoErr(c)]
          ELSE /\ mainOp' = mainOp
               /\ obs' = [obs EXCEPT !.ioerr = NoteIoErr(c)]

\* the reply to MKD, whatever it is; original_remote = self.current_remote_path
folder_mkd_read ==
    /\ InFolder("mkd_read")
    /\ Consume(mainOp.c)
    /\ fstack' = SetTop([Top EXCEPT !.pc = "cwd_send", !.original = current_remote_path])
    /\ UNCHANGED <<sessVars, uiVars, sock, srvCwd, srvDirs, xfer, cfgVars, localSize, nconn, cthread, ntasks, tasks,
                   afterQ, mainOp, obs>>

\* self.ftp.cwd(remote_name): the command is sent
folder_cwd_send ==
    /\ InFolder("cwd_send")
    /\ IF Usable(ftp)
          THEN /\ SrvCwd(ftp, MainId, RelTarget(ftp, Top.local))
               /\ fstack' = SetTop([Top EXCEPT !.pc = "cwd_read"])
               /\ mainOp' = [mainOp EXCEPT !.c = ftp]
               /\ UNCHANGED obs
          ELSE /\ FolderReturn(ftp)
               /\ UNCHANGED srvVars
    /\ UNCHANGED <<sessVars, uiVars, sock, cfgVars, localSize, nconn, cthread, ntasks, tasks, afterQ>>

\* the reply to CWD; then os.listdir(local_path), in the order the system gives
folder_cwd_read ==
    /\ InFolder("cwd_read")
    /\ LET r == Recv(mainOp.c) IN
       /\ Consume(mainOp.c)
       /\ IF VoidOk(r)
             THEN /\ \E order \in Perms(LocalChildren(Top.local)) :
                        fstack' = SetTop([Top EXCEPT !.pc = "loop", !.items = order])
                  /\ obs' = IF Len(fstack) = 1 THEN [obs EXCEPT !.folderRun.listed = TRUE] ELSE obs
                  /\ UNCHANGED mainOp
             ELSE FolderReturn(mainOp.c)
    /\ UNCHANGED <<sessVars, uiVars, sock, srvCwd, srvDirs, xfer, cfgVars, localSize, nconn, cthread, ntasks, tasks,
                   afterQ>>

\* one round of the loop over the folder's items: a file goes to _upload_single_file,
\* a folder to _upload_folder
folder_loop ==
    /\ InFolder("loop") /\ Top.items # <<>>
    /\ LET item == Head(Top.items)
           rest == SetTop([Top EXCEPT !.items = Tail(@)]) IN
       IF item \in LocalFiles
          THEN /\ ntasks + 1 \in Tasks
               /\ ntasks' = ntasks + 1
               /\ tasks' = [tasks EXCEPT ![ntasks + 1] = NewTask("up", item, FileSize(item), TRUE, Top.remote)]
               /\ fstack' = rest
               /\ UNCHANGED <<srvVars, mainOp>>
          ELSE /\ EnterFolder(rest, item, Append(Top.remote, item))
               /\ UNCHANGED <<ntasks, tasks>>
    /\ UNCHANGED <<sessVars, uiVars, sock, cfgVars, localSize, nconn, cthread, afterQ, obs>>

\* self.ftp.cwd(original_remote): the command is sent
folder_restore_send ==
    /\ InFolder("loop") /\ Top.items = <<>>
    /\ IF Usable(ftp)
          THEN /\ SrvCwd(ftp, MainId, AbsTarget(ftp, Top.original))
               /\ fstack' = SetTop([Top EXCEPT !.pc = "restore_read"])
               /\ mainOp' = [mainOp EXCEPT !.c = ftp]
               /\ UNCHANGED obs
          ELSE /\ FolderReturn(ftp)
               /\ UNCHANGED srvVars
    /\ UNCHANGED <<sessVars, uiVars, sock, cfgVars, localSize, nconn, cthread, ntasks, tasks, afterQ>>

\* the reply to that CWD; a failure is logged by the except clause
folder_restore_read ==
    /\ InFolder("restore_read")
    /\ Consume(mainOp.c)
    /\ FolderReturn(mainOp.c)
    /\ UNCHANGED <<sessVars, uiVars, sock, srvCwd, srvDirs, xfer, cfgVars, localSize, nconn, cthread, ntasks, tasks,
                   afterQ>>

\* ------------------------------------------------------ specifications
ConnectSteps ==
    \/ \E i \in ConnIds : connect_thread_create(i)
    \/ \E i \in ConnIds : connect_thread_connect(i)
    \/ \E i \in ConnIds : connect_thread_login(i)
    \/ \E i \in ConnIds : connect_thread_pwd_send(i)
    \/ \E i \in ConnIds : connect_thread_pwd_read(i)
    \/ \E i \in ConnIds : connect_thread_exit(i)
    \/ on_connect_success
    \/ on_connect_error

RefreshSteps ==
    \/ refresh_cwd_send
    \/ refresh_cwd_read
    \/ refresh_list_send
    \/ refresh_list_prelim
    \/ refresh_list_final

BrowseSteps ==
    \/ refresh_remote_files
    \/ remote_go_up
    \/ go_up_cdup_read
    \/ go_up_cwd_send
    \/ go_up_cwd_read
    \/ go_up_pwd_send
    \/ go_up_pwd_read

DisconnectSteps ==
    \/ disconnect_ftp
    \/ disconnect_quit_read

UploadSteps ==
    \/ \E t \in Tasks : upload_thread_start(t)
    \/ \E t \in Tasks : transfer_thread_prelim(t)
    \/ \E t \in Tasks : upload_thread_stream(t)
    \/ \E t \in Tasks : transfer_thread_final(t)
    \/ \E t \in Tasks : transfer_thread_exit(t)
    \/ progress_callback
    \/ upload_complete
    \/ transfer_error

DownloadSteps ==
    \/ \E t \in Tasks : download_thread_start(t)
    \/ \E t \in Tasks : download_thread_size_read(t)
    \/ \E t \in Tasks : download_thread_open(t)
    \/ \E t \in Tasks : download_thread_stream(t)
    \/ download_complete

FolderSteps ==
    \/ upload_folder
    \/ folder_mkd_read
    \/ folder_cwd_send
    \/ folder_cwd_read
    \/ folder_loop
    \/ folder_restore_send
    \/ folder_restore_read

\* the session: connecting, browsing, disconnecting, and the loss of the connection
Next ==
    \/ (connect_ftp /\ nconn = 0)
    \/ ConnectSteps
    \/ RefreshSteps
    \/ BrowseSteps
    \/ DisconnectSteps
    \/ \E c \in ConnIds : BreakSocket(c)

Spec == Init /\ [][Next]_vars

\* the state after a successful connect, the local file sizes being `sizes`, the
\* server's optional commands one of `cmds`, its extra directory entries `es`, the
\* remote list showing `tree` and the main thread being in `op`
SessionIn(dirs, sizes, cmds, es, tree, op) ==
    /\ ftp = 1
    /\ connected = TRUE
    /\ current_remote_path = Root
    /\ connect_btn = FALSE
    /\ disconnect_btn = TRUE
    /\ remote_tree = tree
    /\ sock = [c \in ConnIds |-> IF c = 1 THEN "open" ELSE "new"]
    /\ replyQ = [c \in ConnIds |-> <<>>]
    /\ srvCwd = [c \in ConnIds |-> Root]
    /\ srvDirs = dirs
    /\ srvCmds \in cmds
    /\ srvEntries = es
    /\ tls_var = FALSE
    /\ passive_var = TRUE
    /\ conn = [c \in ConnIds |-> IF c = 1 THEN [NewConn(FALSE) EXCEPT !.login = TRUE] ELSE NoConn]
    /\ xfer = [t \in Tasks |-> NoXfer]
    /\ nconn = 1
    /\ cthread = [i \in ConnIds |-> IF i = 1 THEN [pc |-> "done", c |-> 1] ELSE [pc |-> "unused", c |-> None]]
    /\ ntasks = 0
    /\ tasks = [t \in Tasks |-> NoTask]
    /\ afterQ = <<>>
    /\ mainOp = op
    /\ fstack = <<>>
    /\ localSize = sizes
    /\ obs = [NoObs EXCEPT !.connHandled[1] = "success", !.marked = {1},
                          !.pathFrom = PathFrom(Reply(257, 0 - 1, "PWD", Root), 0 - 1)]

\* ... on a server whose only directory is "/"
Session(sizes, cmds, es, tree, op) == SessionIn({Root}, sizes, cmds, es, tree, op)

\* ... the first listing of "/" done, the server listing its regular entries only
Connected(sizes, cmds) == Session(sizes, cmds, <<>>, <<Item(FALSE, RemoteFile)>>, Idle)

\* connecting and disconnecting: the user may press Connect again while an attempt is
\* running, and connect again after a disconnect
NextReconnect ==
    \/ connect_ftp
    \/ ConnectSteps
    \/ RefreshSteps
    \/ DisconnectSteps

SpecReconnect == Init /\ [][NextReconnect]_vars

\* the options of the connection panel: the user sets them before connecting and may
\* change them while the attempt runs
NextOptions ==
    \/ toggle_tls
    \/ toggle_passive
    \/ (connect_ftp /\ nconn = 0)
    \/ ConnectSteps
    \/ RefreshSteps

SpecOptions == Init /\ [][NextOptions]_vars

InitConnected == Connected(LocalSizes, {OptionalCmds, {"CDUP"}})

\* transfers on a connected session: the user dispatches uploads and downloads, the
\* threads run beside the main thread's callbacks and listings, the user may disconnect
NextTransfer ==
    \/ upload_file
    \/ download_file
    \/ UploadSteps
    \/ DownloadSteps
    \/ RefreshSteps
    \/ DisconnectSteps

SpecTransfer == InitConnected /\ [][NextTransfer]_vars

\* a folder upload on a connected session, with at most one upload dispatched before it
NextFolder ==
    \/ (upload_file /\ ntasks = 0)
    \/ FolderSteps
    \/ UploadSteps
    \/ RefreshSteps

\* the file uploaded before the folder is a short one
InitFolder == Connected([LocalSizes EXCEPT !["a"] = 100], {OptionalCmds, {"CDUP"}})

SpecFolder == InitFolder /\ [][NextFolder]_vars

\* uploads of one local file whose size is any of StorSizes: empty, one block, one
\* block and a byte, two blocks and a half; the server lists with MLSD
StorSizes == {0, 8192, 8193, 20480}
InitStor == \E n \in StorSizes : Connected([LocalSizes EXCEPT !["a"] = n], {OptionalCmds})

NextStor ==
    \/ upload_file
    \/ UploadSteps
    \/ RefreshSteps

SpecStor == InitStor /\ [][NextStor]_vars

\* listings of a directory whose entries the server writes in any order: besides the
\* regular entries, up to MaxEntries out of '.', '..', the directory itself given by
\* its name b, a folder B, a file C, and a file a whose size the server writes as a
\* number or not, in the MLSD facts and in LIST
EntryPool ==
    {Entry(".", "cdir", Tok(0), Tok(4096)), Entry("..", "pdir", Tok(0), Tok(4096)),
     Entry("b", "cdir", Tok(0), Tok(4096)),
     Entry("B", "dir", Tok(0), Tok(4096)), Entry("C", "file", Tok(7), Tok(7))}
    \cup {Entry("a", "file", m, l) : m \in {Tok(512), BadTok}, l \in {Tok(512), BadTok}}
EntrySeqs ==
    {es \in UNION {[1 .. n -> EntryPool] : n \in 0 .. MaxEntries} :
        \A j, k \in DOMAIN es : j # k => es[j].name # es[k].name /\ ListName(es[j]) # ListName(es[k])}
\* _on_connect_success has called refresh_remote_files()
InitListing ==
    \E es \in EntrySeqs :
        Session(LocalSizes, {OptionalCmds, {"CDUP"}}, es, <<>>, [Idle EXCEPT !.op = "refresh", !.pc = "cwd_send"])

NextListing ==
    \/ refresh_remote_files
    \/ RefreshSteps

SpecListing == InitListing /\ [][NextListing]_vars

\* browsing while one upload of a short file runs: the user goes up or refreshes beside
\* the thread; the server may lack MLSD and CDUP
InitBrowse == Connected([LocalSizes EXCEPT !["a"] = 100], SUBSET OptionalCmds)

NextBrowse ==
    \/ (upload_file /\ ntasks = 0)
    \/ UploadSteps
    \/ BrowseSteps
    \/ RefreshSteps

SpecBrowse == InitBrowse /\ [][NextBrowse]_vars

\* navigation on a server that has the directory /d, listed with the file: the user
\* enters the folder, goes up, types a path, refreshes, while one upload of a short
\* file may run and the connection may break
InitNavigate ==
    SessionIn({Root, <<"d">>}, [LocalSizes EXCEPT !["a"] = 100], {OptionalCmds, {"MLSD"}}, <<>>,
              <<Item(TRUE, "d"), Item(FALSE, RemoteFile)>>, Idle)

NextNavigate ==
    \/ (upload_file /\ ntasks = 0)
    \/ UploadSteps
    \/ BrowseSteps
    \/ remote_double_click
    \/ navigate_remote_path
    \/ RefreshSteps
    \/ BreakSocket(1)

SpecNavigate == InitNavigate /\ [][NextNavigate]_vars

\* ------------------------------------------------------------- properties
\* the threads that have sent a command on FTP object c and not yet read the last reply
\* to it: the main thread inside a handler, a transfer thread between SIZE/STOR/RETR and
\* the completion reply, a connect thread between PWD and its reply
MainReading ==
    IF mainOp.op = "folder"
       THEN fstack # <<>> /\ Top.pc \in {"mkd_read", "cwd_read", "restore_read"}
       ELSE mainOp.pc \in {"cwd_read", "mlsd_prelim", "list_prelim", "mlsd_final", "list_final",
                           "cdup_read", "pwd_read", "quit_read"}
TaskReading(t) == tasks[t].pc \in {"size_read", "prelim", "stream", "final"}
Exchanges(c) ==
    (IF MainReading /\ mainOp.c = c THEN {MainId} ELSE {})
    \cup {t \in Tasks : TaskReading(t) /\ tasks[t].c = c}
    \cup {0 - i : i \in {j \in ConnIds : cthread[j].pc = "pwd_read" /\ cthread[j].c = c}}

\* C1: at any time at most one command/reply exchange is in flight on the control
\* connection: the exchanges of upload threads, download threads and main-thread
\* operations on the shared ftp object never overlap.
C1_OneExchangeInFlight == \A c \in ConnIds : Cardinality(Exchanges(c)) <= 1

\* the server has executed the STOR of a file dispatched by the folder upload
StorExecuted(t) == tasks[t].folder /\ xfer[t].st # "none"

\* C2: every file dispatched by a folder upload has its STOR executed while the
\* server's working directory is the remote folder that corresponds to the file's
\* local parent folder.
C2_StorInItsFolder == \A t \in Tasks : StorExecuted(t) => xfer[t].dir = tasks[t].target

\* C3: for a top-level folder upload started while the server's working directory
\* equals current_remote_path, the server's working directory after _upload_folder
\* returns (on a connection still in use) equals its value before the call.
C3_CwdRestored ==
    LET run == obs.folderRun IN
    (run.returned /\ run.pre /\ run.alive) => run.after = run.before

\* the callbacks of task t that root.after holds, by kind and in order
TaskEvent(e, t) == e.id = t /\ e.kind \in {"progress", "complete", "error"}
Pending(t) ==
    LET q == SelectSeq(afterQ, LAMBDA e : TaskEvent(e, t)) IN [k \in 1 .. Len(q) |-> q[k].kind]
Terminal == {"complete", "error"}
Terminals(sq) == {k \in 1 .. Len(sq) : sq[k] \in Terminal}
ThreadEnded(t) == tasks[t].pc \in {"handler", "done"}

\* C4: for every dispatched upload or download exactly one terminal event (complete or
\* error) is delivered to the main thread, never both and never twice, and after every
\* progress update of the task: the callbacks scheduled and delivered for a task hold at
\* most one terminal event, it is the last of them, a thread that has ended has
\* scheduled exactly one, once it is delivered nothing of the task is left to deliver,
\* and the program comes to rest only when every dispatched task has had its one.
C4_OneTerminalEventLast ==
    \A t \in Tasks :
        LET d == obs.delivered[t]
            all == d \o Pending(t) IN
        /\ Cardinality(Terminals(all)) <= 1
        /\ \A k \in Terminals(all) : k = Len(all)
        /\ ThreadEnded(t) <=> Terminals(all) # {}
        /\ Terminals(d) # {} => Pending(t) = <<>>
        /\ (tasks[t].kind # "none" /\ Terminals(d) = {}) =>
              ENABLED (UploadSteps \/ DownloadSteps \/ RefreshSteps \/ disconnect_quit_read)

\* a transfer whose three progress updates and then its completion were delivered
C4_Witness ==
    \E t \in Tasks : obs.delivered[t] = <<"progress", "progress", "progress", "complete">>

\* C5: every upload or download that fails results in the matching error handler
\* (_upload_error, _download_error) running on the main thread and writing its log
\* entry: once the error callback of a task was delivered, its handler has run.
C5_FailureIsLogged ==
    \A t \in Tasks :
        (\E k \in 1 .. Len(obs.delivered[t]) : obs.delivered[t][k] = "error") => obs.handled[t] = "error"

\* the thread of task t has scheduled the complete callback
CompletePosted(t) == tasks[t].pc = "done" /\ VoidOk(tasks[t].final)
\* ... the error callback
ErrorPosted(t) == ThreadEnded(t) /\ ~CompletePosted(t)

NonDecreasing(sq) == \A k \in 1 .. Len(sq) - 1 : sq[k] <= sq[k + 1]

\* the counts of a task: the values its callback computed never decrease and end at the
\* running count; a task that succeeded counted exactly the bytes it moved, which for
\* an upload are the bytes of the file and for a download the bytes the server sent
CountsAgree ==
    \A t \in Tasks :
        LET tk == tasks[t] IN
        /\ NonDecreasing(tk.hist)
        /\ tk.hist # <<>> => tk.hist[Len(tk.hist)] = tk.cum
        /\ CompletePosted(t) =>
              /\ tk.cum = tk.moved
              /\ tk.kind = "up" => tk.cum = tk.file_size
              /\ tk.kind = "down" => tk.cum = xfer[t].bytes

\* the total of an existing task is not assigned again
SizeFixedAtCreation ==
    \A t \in Tasks : tasks[t].kind # "none" => tasks'[t].file_size = tasks[t].file_size

\* the total of an existing task is assigned at most once, by the SIZE query of a
\* download, before the task has opened its data connection or moved a byte
SizeSetBeforeTransfer ==
    \A t \in Tasks :
        (tasks[t].kind # "none" /\ tasks'[t].file_size # tasks[t].file_size) =>
            /\ tasks[t].kind = "down"
            /\ tasks[t].file_size = Unset
            /\ tasks[t].pc \in {"start", "size_read"}
            /\ tasks[t].moved = 0 /\ tasks[t].hist = <<>> /\ ~tasks[t].dataOpen

\* C6 (as stated): for every transfer task the cumulative byte counts of its progress
\* callback are non-decreasing, the total size used for the task is fixed when the task
\* is created, and when the task succeeds the final count equals the bytes moved.
C6_TotalFixedAtCreation == [] CountsAgree /\ [][SizeFixedAtCreation]_vars

\* C6 (amended): the counts are non-decreasing and on success equal the bytes moved;
\* the total of an upload is fixed when the task is created, the total of a download is
\* set once by the thread's SIZE query before any byte moves, and it is never revised
\* after that.
C6_TotalFixedBeforeTransfer == [] CountsAgree /\ [][SizeSetBeforeTransfer]_vars

\* a download that succeeded with the total the SIZE query gave and both of its counts
C6_Witness ==
    \E t \in Tasks :
        /\ tasks[t].kind = "down" /\ CompletePosted(t)
        /\ tasks[t].file_size = RemoteSize
        /\ tasks[t].hist = <<ChunkSize, RemoteSize>>

Ceil(n) == (n + ChunkSize - 1) \div ChunkSize
ExpectedCounts(n) == [k \in 1 .. Ceil(n) |-> Min(k * ChunkSize, n)]
IsPrefix(a, b) == Len(a) <= Len(b) /\ \A k \in 1 .. Len(a) : a[k] = b[k]

\* C7: uploading a file of N bytes with chunk size 8192 produces exactly ceil(N/8192)
\* progress callbacks whose cumulative values are min(k*8192, N), followed by the
\* success event; for N = 20480 the values are 8192, 16384, 20480.
C7_UploadProgress ==
    \A t \in Tasks :
        LET tk == tasks[t]
            n == tk.file_size IN
        tk.kind = "up" =>
            /\ IsPrefix(tk.hist, ExpectedCounts(n))
            /\ CompletePosted(t) =>
                  /\ tk.hist = ExpectedCounts(n)
                  /\ obs.delivered[t] \o Pending(t)
                        = [k \in 1 .. Ceil(n) + 1 |-> IF k <= Ceil(n) THEN "progress" ELSE "complete"]
                  /\ n = 20480 => tk.hist = <<8192, 16384, 20480>>

\* the upload of 20480 bytes has succeeded and its four callbacks were delivered
C7_Witness ==
    \E t \in Tasks :
        /\ tasks[t].kind = "up" /\ tasks[t].file_size = 20480 /\ CompletePosted(t)
        /\ tasks[t].hist = <<8192, 16384, 20480>>
        /\ Len(obs.delivered[t]) = 4

\* C8: a transfer reports success only after the data connection has closed and the
\* completion reply to its own STOR/RETR was read and was in the success class; a
\* transfer whose completion reply is negative ends as failed.
C8_SuccessOnOwnFinalReply ==
    \A t \in Tasks :
        /\ CompletePosted(t) =>
              /\ ~tasks[t].dataOpen
              /\ tasks[t].final.by = t /\ tasks[t].final.verb = "FINAL"
              /\ Cls(tasks[t].final) = 2
        /\ xfer[t].st \in {"failed", "refused"} => ~CompletePosted(t)

\* the outcome the program reports for a task
Outcome(t) ==
    IF CompletePosted(t) THEN "Succeeded" ELSE IF ErrorPosted(t) THEN "Failed" ELSE "Running"

\* C9: a running transfer can be cancelled once its data channel is being opened (the
\* one interruption the user has is to disconnect); after that the task reaches the
\* Cancelled terminal state, never Succeeded, and leaves no socket or file handle open.
C9_CancelledNotSucceeded ==
    \A t \in obs.interrupted :
        /\ Outcome(t) \in {"Running", "Cancelled"}
        /\ Outcome(t) # "Running" => ~tasks[t].dataOpen /\ ~tasks[t].fileOpen

\* C10: once a handler has seen a control-channel command fail with an I/O error, the
\* session is disconnected: connected is False and the ftp object is released.
C10_IoErrorDisconnects ==
    \A c \in obs.ioerr : MainIdle => ~connected /\ ftp # c

\* the step in which a transfer fails: its thread enters the except clause
Fails(t) == tasks[t].pc # "handler" /\ tasks'[t].pc = "handler"
\* the thread of task t has ended and reported what the server did with its transfer
OwnResult(t) == ThreadEnded(t) => (CompletePosted(t) <=> xfer[t].st = "complete")

\* C11: a failed upload or download changes only that task's outcome: the failure
\* leaves connected, the ftp handle and current_remote_path as they were, and every
\* other transfer that ran beside the failed one ends with its own result.
C11_FailureIsContained ==
    /\ [] (\A t, u \in Tasks : (t # u /\ ErrorPosted(u)) => OwnResult(t))
    /\ [][(\E t \in Tasks : Fails(t)) => UNCHANGED sessVars]_vars


\* the client holds FTP object c: self.ftp refers to it, or a thread is inside a call on it
InUse(c) == ftp = c \/ Exchanges(c) # {}
\* the control connections that are open and held by the client
OpenInUse == {c \in ConnIds : sock[c] = "open" /\ InUse(c)}

\* C12: at most one control connection is open for the client: whatever connect
\* requests (also one made while an earlier attempt is running) and disconnects the
\* user makes, no earlier connection stays open once another one is in use.
C12_OneConnectionOpen == Cardinality(OpenInUse) <= 1

\* the step in which the client opens a data connection on FTP object c: ntransfercmd()
\* of a listing or of a transfer
OpensData(c) ==
    \/ /\ mainOp.pc \in {"mlsd_send", "list_send"}
       /\ mainOp'.pc \in {"mlsd_prelim", "list_prelim"}
       /\ mainOp'.c = c
    \/ \E t \in Tasks : ~tasks[t].dataOpen /\ tasks'[t].dataOpen /\ tasks'[t].c = c

\* C13: on a session made in TLS mode the data channel is protected (prot_p) before
\* the session is marked connected, so every data connection opened on an FTP_TLS
\* object is secured, also when the user changes the TLS box while the attempt runs.
C13_TlsDataSecured ==
    [][\A c \in ConnIds : (OpensData(c) /\ conn[c].tls) => conn[c].prot]_vars

\* C20: when "Passive Mode" is deselected the data connections use active mode, when
\* it is selected they use passive mode.
C20_PassiveAsSelected ==
    [][\A c \in ConnIds : OpensData(c) => (conn[c].pasv <=> passive_var)]_vars

\* Tk runs the error callback of a connect attempt
ConnectErrorRuns == MainIdle /\ afterQ # <<>> /\ Head(afterQ).kind = "connect_err" /\ afterQ' = Tail(afterQ)
\* attempt i has ended in failure: its thread is in or past the except clause and no
\* success callback was scheduled or run for it
EndedInFailure(i) ==
    /\ cthread[i].pc \in {"handler", "done"}
    /\ obs.connHandled[i] # "success"
    /\ \A k \in DOMAIN afterQ : afterQ[k] # Event("connect_ok", i, 0)

\* C14: if the server rejects the connection or the login, the attempt ends in failure:
\* that attempt never sets connected to True, and its error callback starts no listing
\* or transfer, so no data connection is opened because of it.
C14_RejectedNeverConnected ==
    /\ [] (\A i \in obs.rejected : i \notin obs.marked /\ EndedInFailure(i))
    /\ [][ConnectErrorRuns => (mainOp' = Idle /\ UNCHANGED <<tasks, ntasks>>)]_vars
\* an attempt whose login the server rejected: its thread has ended, Tk has run its callback
C14_Witness ==
    \E i \in obs.rejected :
        cthread[i].pc = "done" /\ afterQ = <<>> /\ MainIdle /\ ~connected /\ sock[i] = "open"

\* the value of current_remote_path is what the server said in reply to the PWD of the
\* pwd() call that assigned it
PathIsPwdReply ==
    LET r == obs.pathFrom.reply IN
    /\ r.verb = "PWD" /\ r.by = obs.pathFrom.reader
    /\ current_remote_path = r.path

\* C15: after a successful connect every value of current_remote_path is the server's
\* reply to a PWD query issued after the directory change that produced it; it is
\* never computed on the client side.
C15_PathFromPwd == (connected /\ obs.pathFrom # NoPathFrom) => PathIsPwdReply

\* the step that ends a listing whose MLSD attempt failed: the reply to LIST is in
\* mainOp.data, the handler returns
FallbackEnds == mainOp.op = "refresh" /\ mainOp.pc = "list_final" /\ mainOp'.op = "idle"
\* the LIST reply parsed by the legacy grammar alone
LegacyParse == ParseList(mainOp.data, <<>>)

\* C16: a listing first uses MLSD; when that attempt fails (the command is rejected or
\* its reply cannot be parsed) the client falls back to LIST and the listing shown is
\* the legacy parse of the LIST reply; the listing fails only if LIST fails too.
C16_FallbackIsLegacyParse ==
    [][FallbackEnds =>
         remote_tree' = IF VoidOk(Recv(mainOp.c)) /\ ~LegacyParse.raised
                           THEN SortItems(LegacyParse.items)
                           ELSE <<>>]_vars

\* names that differ only in case, in the order of their lower-case forms
CaseFolded == <<{"."}, {".."}, {"a"}, {"B", "b"}, {"C", "c"}, {"d"}, {"r"}, {"s"}>>
FoldRank(n) == CHOOSE i \in DOMAIN CaseFolded : n \in CaseFolded[i]
\* directories first, then case-insensitively by name
Ordered(s) ==
    \A j, k \in DOMAIN s :
        j < k => /\ s[j].is_dir \/ ~s[k].is_dir
                 /\ s[j].is_dir = s[k].is_dir => FoldRank(s[j].name) <= FoldRank(s[k].name)

\* C17: the entries shown are ordered directories first, then case-insensitively by
\* name, whatever order the server sent them in; sorting a listing that is already
\* sorted leaves its order unchanged.
C17_SortedListing == Ordered(remote_tree) /\ SortItems(remote_tree) = remote_tree
\* the server sent file C before file a, the list shows a before C
C17_Witness ==
    /\ Len(srvEntries) = 2 /\ srvEntries[1].name = "C" /\ srvEntries[2].name = "a"
    /\ \E j, k \in DOMAIN remote_tree :
          j < k /\ remote_tree[j] = Item(FALSE, "a") /\ remote_tree[k] = Item(FALSE, "C")

\* a LIST line the legacy grammar accepts: 9 tokens or more, and a decimal size if it
\* is a file's line
WellFormed(l) == l.ntok >= 9 /\ (l.dir \/ l.size.digits)

\* C18: in a legacy listing a line of fewer than 9 tokens is skipped, and no single
\* malformed line (also one of 9 tokens or more whose size token is not a number)
\* aborts the listing: the well-formed lines of the reply are shown.
C18_MalformedLineSkipped ==
    [][(FallbackEnds /\ VoidOk(Recv(mainOp.c))) =>
         \A k \in DOMAIN mainOp.data :
             WellFormed(mainOp.data[k]) =>
                 \E j \in DOMAIN remote_tree' :
                     remote_tree'[j] = Item(mainOp.data[k].dir, mainOp.data[k].name)]_vars

\* C19: no listing result, structured or legacy, contains an entry named '.' or '..'.
C19_NoDotEntries == \A j \in DOMAIN remote_tree : remote_tree[j].name \notin {".", ".."}

\* the step in which a recursive call of _upload_folder returns to its caller's loop
RecursiveReturn == mainOp.op = "folder" /\ Len(fstack) >= 2 /\ Len(fstack') = Len(fstack) - 1

\* ... at the end of its try block: the reply to self.ftp.cwd(original_remote) is 2xx
RestoreAcknowledged == Top.pc = "restore_read" /\ VoidOk(Recv(mainOp.c))

\* C21: when _upload_folder recurses into a subdirectory, after the recursive call
\* returns the server's working directory is the one that was current when that call
\* began (the parent remote folder), so what is enumerated next is still processed
\* in the parent folder.
C21_RecursionRestoresParent ==
    [][(RecursiveReturn /\ RestoreAcknowledged) => srvCwd'[mainOp.c] = Top.entry]_vars

\* the step in which self.ftp.cwd(remote_name) of _upload_folder raises
FolderCwdFails == InFolder("cwd_read") /\ ~VoidOk(Recv(mainOp.c))

\* C22: in a folder upload a failure of mkd is ignored and the upload goes on to cwd
\* into the folder; if that cwd fails, no file task is dispatched for the folder and
\* the server's working directory is left as it was.
C22_FailedCwdChangesNothing ==
    /\ [][(InFolder("mkd_read") /\ fstack' # fstack) => (InFolder("cwd_send"))']_vars
    /\ [][(FolderCwdFails /\ fstack' # fstack) =>
            /\ UNCHANGED <<ntasks, tasks>>
            /\ Len(fstack') < Len(fstack)
            /\ Usable(mainOp.c) => srvCwd'[mainOp.c] = Top.entry]_vars

\* connect attempt i has failed and Tk has run its error callback
AttemptFailed(i) == obs.connHandled[i] \in {"error", "raised"}

\* C23: after a connect attempt fails at any step (connect, login, TLS upgrade, first
\* PWD) the client ends with connected = False and ftp = None, and the control socket
\* that attempt opened is not left open.
C23_FailedAttemptCleansUp ==
    \A i \in ConnIds :
        (AttemptFailed(i) /\ MainIdle /\ cthread[i].pc = "done") =>
            ~connected /\ ftp = None /\ sock[i] # "open"

\* C24: after disconnect_ftp returns, connected = False and ftp = None whether or not
\* QUIT succeeded, and the client stays so until the user makes a new connect request
\* after that disconnect.
C24_DisconnectedUntilConnect == obs.disconnected => (~connected /\ ftp = None)

\* the step that ends a listing made through MLSD
MlsdEnds == mainOp.op = "refresh" /\ mainOp.pc = "mlsd_final" /\ mainOp'.op = "idle"
\* the entries of the listed directory by their type fact: dir gives a directory,
\* cdir and pdir give nothing, any other type gives a file
ByTypeFact(es) ==
    {Item(es[k].type = "dir", es[k].name) : k \in {j \in DOMAIN es : es[j].type \notin {"cdir", "pdir"}}}

\* C25: in a structured listing an entry with type=dir is produced as a directory, an
\* entry with type=cdir or type=pdir is not produced whatever its name, and an entry
\* of any other type is produced as a file.
C25_EntriesByTypeFact ==
    [][MlsdEnds =>
         {remote_tree'[j] : j \in DOMAIN remote_tree'} = ByTypeFact(Entries(srvCwd[mainOp.c]))]_vars

\* C26: in every reachable state, also while two connect attempts overlap or a late
\* attempt finishes after a failure or a disconnect, connected = True implies that ftp
\* is not None and refers to a connection on which the login has succeeded.
C26_ConnectedHasLoggedInFtp ==
    connected => IF ftp = None THEN FALSE ELSE conn[ftp].login

\* C27: whenever the main thread is idle on a usable connection, the server's working
\* directory equals current_remote_path, after any sequence of navigation, refresh
\* and folder-upload operations and on every exit path of _upload_folder.
C27_CwdIsDisplayedPath ==
    (MainIdle /\ connected /\ Usable(ftp)) => srvCwd[ftp] = current_remote_path

\* a step of a navigation handler in which cwd() or pwd() raises: the socket is no
\* longer usable, or the reply read is not a 2xx (for CDUP a 500 makes ftplib try CWD ..)
NavStepRaises ==
    /\ mainOp.op \in NavOps
    /\ mainOp' # mainOp
    /\ IF mainOp.pc = "cwd_send" THEN ~Usable(mainOp.c)
       ELSE IF mainOp.pc = "pwd_send" THEN ~Usable(ftp)
       ELSE LET r == Recv(mainOp.c) IN ~VoidOk(r) /\ ~(mainOp.pc = "cdup_read" /\ r.code = 500)

\* C28: if a navigation operation (enter folder, go up, go to a typed path) fails,
\* current_remote_path keeps its previous value and no listing refresh is triggered:
\* the handler ends, the remote list is not cleared and no command is sent.
C28_FailedNavigationKeepsPath ==
    [][NavStepRaises =>
         /\ current_remote_path' = current_remote_path
         /\ mainOp'.op = "idle"
         /\ remote_tree' = remote_tree
         /\ \A c \in ConnIds : Len(replyQ'[c]) <= Len(replyQ[c])]_vars

\* a navigation has failed after an earlier one had moved the client into /d
C28_Witness ==
    /\ obs.navFailed /\ MainIdle
    /\ current_remote_path = <<"d">>
    /\ Usable(ftp) /\ srvCwd[ftp] = <<"d">>

\* the server lists every name of directory p once
DistinctNames(p) ==
    LET es == Entries(p) IN
    \A i, j \in DOMAIN es : i # j => es[i].name # es[j].name /\ ListName(es[i]) # ListName(es[j])

\* C29: each remote entry appears at most once in a listing result, also when the
\* structured attempt fails after some of its entries were parsed and the legacy
\* fallback runs.
C29_NoEntryTwice ==
    (MainIdle /\ Usable(ftp) /\ DistinctNames(srvCwd[ftp])) =>
        \A i, j \in DOMAIN remote_tree : i # j => remote_tree[i].name # remote_tree[j].name

\* every download dispatched so far has failed, and there is one
DownloadsFailed ==
    /\ \E t \in Tasks : tasks[t].kind = "down"
    /\ \A t \in Tasks : tasks[t].kind = "down" => Outcome(t) = "Failed"

\* C30: a download that fails (RETR rejected, connection lost, an error before any byte
\* arrives) leaves the local file of the same name that existed before with its
\* previous content; only a download that succeeds replaces it.
C30_FailedDownloadKeepsFile ==
    DownloadsFailed => localSize[RemoteFile] = LocalSizes[RemoteFile]

============================================================================
